---- MODULE Spec2Model ----
(***************************************************************************)
(* legacy_sample: copy_cstr (bounded string copy) and safe_div (division   *)
(* with a zero-divisor sentinel), src/src/legacy_sample.cpp.               *)
(*                                                                         *)
(* Memory is modelled explicitly.  A char is a number 0..MaxChar, 0 being  *)
(* the terminator '\0'.  A destination buffer is a function                *)
(* 0..BufLen-1 -> Chars; a source text is a function 0..L -> Chars whose   *)
(* only 0 is at index L (the storage of a C string of length L).  The      *)
(* source storage is disjoint from every destination buffer (memcpy's      *)
(* precondition, and the header's "src" is const).                         *)
(*                                                                         *)
(* Each call runs in a thread t.  copy_cstr is executed unit by unit       *)
(* (strlen's scan, memcpy's unit copies, the terminator store) so that     *)
(* calls can interleave; safe_div is one step.  int is a two's complement  *)
(* integer of IntBits bits.                                                *)
(***************************************************************************)
EXTENDS Integers, FiniteSets, Sequences, TLC

\* ---- bounds of the model ------------------------------------------------
NumThreads == 2     \* threads (and destination buffers, one per thread)
BufLen     == 3     \* slots of every destination buffer
MaxSrcLen  == 3     \* longest source text
MaxChar    == 2     \* non-terminator chars are 1..MaxChar
NumSrc     == 2     \* source texts in memory
IntBits    == 3     \* width of int

Threads == 1..NumThreads
SrcIds  == 1..NumSrc
Chars   == 0..MaxChar
NUL     == 0
nullptr == 0

RECURSIVE Pow2(_)
Pow2(k) == IF k = 0 THEN 1 ELSE 2 * Pow2(k - 1)

INT_MIN == -Pow2(IntBits - 1)
INT_MAX == Pow2(IntBits - 1) - 1
Int_t   == INT_MIN..INT_MAX

\* All storages of a C string of length at most MaxSrcLen.
Texts ==
  UNION { { s \in [0..L -> Chars] :
              /\ s[L] = NUL
              /\ \A i \in 0..(L - 1) : s[i] # NUL } : L \in 0..MaxSrcLen }

\* Prior contents of a destination buffer: every slot either already a
\* terminator or a non-terminator char.
PriorBufs == [0..(BufLen - 1) -> {NUL, MaxChar}]

Min(x, y) == IF x <= y THEN x ELSE y
Abs(x)    == IF x < 0 THEN -x ELSE x

VARIABLES
  mem,        \* mem[b][i]: slot i of destination buffer b
  srcmem,     \* srcmem[s][i]: slot i of source text s
  call,       \* call[t]: the call thread t makes and its arguments
  pc,         \* pc[t]: position of thread t inside its call
  idx,        \* idx[t]: loop index of strlen / memcpy
  n,          \* n[k]: the local variable n (one per call)
  ret,        \* ret[t]: value returned
  round,      \* round[t]: 1 in the first call, 2 in the repeated call
  first,      \* first[t]: return value and memory left by the first call
  written,    \* written[t]: <<buffer, index>> pairs stored to by this call
  rd,         \* rd[t]: source indices read by this call
  mem0,       \* destination memory at the start of the current call
  src0        \* source memory at the start

vars == <<mem, srcmem, call, pc, idx, n, ret, round, first, written, rd,
          mem0, src0>>

\* ---- pure functions -----------------------------------------------------

\* std::strlen: scans from index i to the first terminator.
RECURSIVE strlen_from(_, _)
strlen_from(s, i) == IF s[i] = NUL THEN i ELSE strlen_from(s, i + 1)

strlen(s) == strlen_from(s, 0)

ClampOffByOne(len, dst_size) == IF len > dst_size THEN dst_size - 1 ELSE len

\* if (n >= dst_size) n = dst_size - 1;
Clamp(len, dst_size) == IF len >= dst_size THEN dst_size - 1 ELSE len

StoreAccumulate(buf, i, c) ==
  IF i \in DOMAIN buf THEN [buf EXCEPT ![i] = (buf[i] + c) % (MaxChar + 1)]
  ELSE buf

\* dst[i] = c.  A store outside the buffer leaves the buffer as it is (the
\* index is still recorded in written).
Store(buf, i, c) == IF i \in DOMAIN buf THEN [buf EXCEPT ![i] = c] ELSE buf

\* std::memcpy(dst, src, cnt): units 0..cnt-1 in ascending order.
RECURSIVE memcpy(_, _, _, _)
memcpy(buf, s, i, cnt) ==
  IF i >= cnt THEN buf ELSE memcpy(Store(buf, i, s[i]), s, i + 1, cnt)

EntryNoOpNullOnly(dst, dst_size) == dst = nullptr

\* if (dst == nullptr || dst_size == 0) return 0;
EntryNoOp(dst, dst_size) == dst = nullptr \/ dst_size = 0

NullSrcIdxFill(dst_size) == 0..(dst_size - 1)

\* src == nullptr: the indices stored to (dst[0] = '\0').
NullSrcIdx(dst_size) == {0}

TermIdxPad(len, dst_size) == len..(dst_size - 1)

\* dst[n] = '\0': the indices stored to.
TermIdx(len, dst_size) == {len}

RECURSIVE StoreAll(_, _, _)
StoreAll(buf, I, c) ==
  IF I = {} THEN buf
  ELSE LET i == CHOOSE k \in I : \A j \in I : k <= j
       IN  StoreAll(Store(buf, i, c), I \ {i}, c)

\* copy_cstr run alone, start to end: the value returned and the buffer left.
\* buf is the buffer dst points to (unused when dst is null), s the text src
\* points to (unused when src is null).
copy_cstr(dst, buf, dst_size, src, s) ==
  IF dst = nullptr \/ dst_size = 0 THEN [ret |-> 0, buf |-> buf]
  ELSE IF src = nullptr THEN [ret |-> 0, buf |-> Store(buf, 0, NUL)]
  ELSE LET len == Clamp(strlen(s), dst_size)
       IN  [ret |-> len, buf |-> Store(memcpy(buf, s, 0, len), len, NUL)]

\* The C++ operator / on int: the quotient truncated toward zero.
TruncDiv(a, b) ==
  IF (a < 0) = (b < 0) THEN Abs(a) \div Abs(b) ELSE -(Abs(a) \div Abs(b))

safe_div_noguard(a, b) ==
  IF b = 0 \/ (a = INT_MIN /\ b = -1)
    THEN {[trap |-> TRUE, val |-> 0]}
    ELSE {[trap |-> FALSE, val |-> TruncDiv(a, b)]}

\* safe_div: the outcomes a call can have.  INT_MIN / -1 overflows int, which
\* is undefined behaviour: the division instruction traps, or the quotient
\* wraps to INT_MIN.
safe_div(a, b) ==
  IF b = 0 THEN {[trap |-> FALSE, val |-> 0]}
  ELSE IF a = INT_MIN /\ b = -1
    THEN {[trap |-> TRUE, val |-> 0], [trap |-> FALSE, val |-> INT_MIN]}
    ELSE {[trap |-> FALSE, val |-> TruncDiv(a, b)]}

StaticSlot(t) == 1

\* std::size_t n is an automatic variable: every call has its own.
LocalSlot(t) == t

\* An out-of-bounds load is undefined: any char may come back.
Load(s, i) == IF i \in DOMAIN s THEN {s[i]} ELSE Chars

MemcpyUnitNext(s, i) == Load(s, i + 1)

\* memcpy: the unit stored to dst[i] is src[i].
MemcpyUnit(s, i) == Load(s, i)

\* ---- initial states -----------------------------------------------------

NoCall == [fn |-> "none", dst |-> nullptr, dst_size |-> 0, src |-> nullptr,
           a |-> 0, b |-> 0]

CopyCall(d, sz, s) == [fn |-> "copy_cstr", dst |-> d, dst_size |-> sz,
                       src |-> s, a |-> 0, b |-> 0]

DivCall(x, y) == [fn |-> "safe_div", dst |-> nullptr, dst_size |-> 0,
                  src |-> nullptr, a |-> x, b |-> y]

FillBuf   == [i \in 0..(BufLen - 1) |-> MaxChar]
EmptyText == [i \in 0..0 |-> NUL]

\* The text of source s in the concurrent runs: lengths MaxSrcLen,
\* MaxSrcLen - 1, ..., chars cycling through 1..MaxChar.
ConcText(s) ==
  LET L == IF MaxSrcLen >= s - 1 THEN MaxSrcLen - (s - 1) ELSE 0
  IN  [i \in 0..L |-> IF i = L THEN NUL ELSE 1 + ((i + s) % MaxChar)]

ConcSizes   == 0..BufLen
ConcDivArgs == {<<INT_MIN, -1>>, <<INT_MAX, 0>>, <<-3, 2>>}

InitRest ==
  /\ idx = [t \in Threads |-> 0]
  /\ n = [t \in Threads |-> 0]
  /\ ret = [t \in Threads |-> 0]
  /\ round = [t \in Threads |-> 1]
  /\ first = [t \in Threads |-> [ret |-> 0, mem |-> mem]]
  /\ written = [t \in Threads |-> {}]
  /\ rd = [t \in Threads |-> {}]
  /\ mem0 = mem
  /\ src0 = srcmem

\* One call, made by thread 1: any copy_cstr call on buffer 1 and source 1,
\* or any safe_div call.
Init ==
  /\ \E c \in { CopyCall(d, sz, s) : d \in {nullptr, 1}, sz \in 0..BufLen,
                                     s \in {nullptr, 1} }
              \cup { DivCall(x, y) : x \in Int_t, y \in Int_t } :
       /\ call = [t \in Threads |-> IF t = 1 THEN c ELSE NoCall]
       /\ IF c.fn = "copy_cstr"
            THEN /\ \E p \in PriorBufs :
                      mem = [b \in Threads |-> IF b = 1 THEN p ELSE FillBuf]
                 /\ \E x \in Texts :
                      srcmem = [s \in SrcIds |-> IF s = 1 THEN x ELSE EmptyText]
            ELSE /\ mem = [b \in Threads |-> FillBuf]
                 /\ srcmem = [s \in SrcIds |-> EmptyText]
  /\ pc = [t \in Threads |-> IF t = 1 THEN "call" ELSE "idle"]
  /\ InitRest

\* Every thread makes a call; a copy_cstr call of thread t has buffer t as its
\* destination, and any source (sources are shared).
InitConc ==
  /\ call \in [Threads -> UNION { { CopyCall(d, sz, s) :
                                        sz \in ConcSizes,
                                        s \in {nullptr} \cup SrcIds } :
                                    d \in Threads }
                          \cup { DivCall(p[1], p[2]) : p \in ConcDivArgs }]
  /\ \A t \in Threads : call[t].fn = "copy_cstr" => call[t].dst = t
  /\ mem = [b \in Threads |-> FillBuf]
  /\ srcmem = [s \in SrcIds |-> ConcText(s)]
  /\ pc = [t \in Threads |-> "call"]
  /\ InitRest

\* ---- the calls, step by step --------------------------------------------

\* A trap (SIGFPE) ends the process: no thread takes another step.
Running == \A t \in Threads : pc[t] # "trapped"

Ghosts == <<mem0, src0>>

\* Lines 8-9: the two guards of copy_cstr.
copy_cstr_entry(t) ==
  /\ Running
  /\ pc[t] = "call"
  /\ call[t].fn = "copy_cstr"
  /\ IF EntryNoOp(call[t].dst, call[t].dst_size)
       THEN /\ ret' = [ret EXCEPT ![t] = 0]
            /\ pc' = [pc EXCEPT ![t] = "done"]
       ELSE /\ pc' = [pc EXCEPT ![t] =
                        IF call[t].src = nullptr THEN "nullsrc" ELSE "strlen"]
            /\ ret' = ret
  /\ UNCHANGED <<mem, srcmem, call, idx, n, round, first, written, rd, Ghosts>>

\* Lines 10-11: dst[0] = '\0'; return 0;
copy_cstr_nullsrc(t) ==
  /\ Running
  /\ pc[t] = "nullsrc"
  /\ LET d == call[t].dst
         I == NullSrcIdx(call[t].dst_size)
     IN  /\ mem' = [mem EXCEPT ![d] = StoreAll(@, I, NUL)]
         /\ written' = [written EXCEPT ![t] = @ \cup {<<d, i>> : i \in I}]
  /\ ret' = [ret EXCEPT ![t] = 0]
  /\ pc' = [pc EXCEPT ![t] = "done"]
  /\ UNCHANGED <<srcmem, call, idx, n, round, first, rd, Ghosts>>

\* Lines 14-15: one unit of strlen's scan; at the terminator, n is set and
\* clamped.
strlen_step(t) ==
  /\ Running
  /\ pc[t] = "strlen"
  /\ rd' = [rd EXCEPT ![t] = @ \cup {idx[t]}]
  /\ \E c \in Load(srcmem[call[t].src], idx[t]) :
       IF c = NUL
         THEN /\ n' = [n EXCEPT ![LocalSlot(t)] = Clamp(idx[t], call[t].dst_size)]
              /\ idx' = [idx EXCEPT ![t] = 0]
              /\ pc' = [pc EXCEPT ![t] = "memcpy"]
         ELSE /\ idx' = [idx EXCEPT ![t] = @ + 1]
              /\ UNCHANGED <<n, pc>>
  /\ UNCHANGED <<mem, srcmem, call, ret, round, first, written, Ghosts>>

\* Line 16: one unit of memcpy(dst, src, n).
memcpy_step(t) ==
  /\ Running
  /\ pc[t] = "memcpy"
  /\ idx[t] < n[LocalSlot(t)]
  /\ rd' = [rd EXCEPT ![t] = @ \cup {idx[t]}]
  /\ \E c \in MemcpyUnit(srcmem[call[t].src], idx[t]) :
       mem' = [mem EXCEPT ![call[t].dst] = Store(@, idx[t], c)]
  /\ written' = [written EXCEPT ![t] = @ \cup {<<call[t].dst, idx[t]>>}]
  /\ idx' = [idx EXCEPT ![t] = @ + 1]
  /\ UNCHANGED <<srcmem, call, pc, n, ret, round, first, Ghosts>>

\* Lines 17-18: dst[n] = '\0'; return n;
copy_cstr_term(t) ==
  /\ Running
  /\ pc[t] = "memcpy"
  /\ idx[t] >= n[LocalSlot(t)]
  /\ LET d == call[t].dst
         I == TermIdx(n[LocalSlot(t)], call[t].dst_size)
     IN  /\ mem' = [mem EXCEPT ![d] = StoreAll(@, I, NUL)]
         /\ written' = [written EXCEPT ![t] = @ \cup {<<d, i>> : i \in I}]
  /\ ret' = [ret EXCEPT ![t] = n[LocalSlot(t)]]
  /\ pc' = [pc EXCEPT ![t] = "done"]
  /\ UNCHANGED <<srcmem, call, idx, n, round, first, rd, Ghosts>>

\* Lines 21-24: safe_div, one step.
safe_div_call(t) ==
  /\ Running
  /\ pc[t] = "call"
  /\ call[t].fn = "safe_div"
  /\ \E o \in safe_div(call[t].a, call[t].b) :
       IF o.trap
         THEN /\ pc' = [pc EXCEPT ![t] = "trapped"]
              /\ ret' = ret
         ELSE /\ pc' = [pc EXCEPT ![t] = "done"]
              /\ ret' = [ret EXCEPT ![t] = o.val]
  /\ UNCHANGED <<mem, srcmem, call, idx, n, round, first, written, rd, Ghosts>>

\* The caller repeats a finished copy_cstr call with the same arguments, on
\* the memory the first call left.
call_again(t) ==
  /\ Running
  /\ pc[t] = "done"
  /\ call[t].fn = "copy_cstr"
  /\ round[t] = 1
  /\ round' = [round EXCEPT ![t] = 2]
  /\ first' = [first EXCEPT ![t] = [ret |-> ret[t], mem |-> mem]]
  /\ pc' = [pc EXCEPT ![t] = "call"]
  /\ idx' = [idx EXCEPT ![t] = 0]
  /\ written' = [written EXCEPT ![t] = {}]
  /\ rd' = [rd EXCEPT ![t] = {}]
  /\ mem0' = mem
  /\ UNCHANGED <<mem, srcmem, call, n, ret, src0>>

Step(t) ==
  \/ copy_cstr_entry(t)
  \/ copy_cstr_nullsrc(t)
  \/ strlen_step(t)
  \/ memcpy_step(t)
  \/ copy_cstr_term(t)
  \/ safe_div_call(t)

Next == \E t \in Threads : Step(t) \/ call_again(t)

NextConc == \E t \in Threads : Step(t)

\* One call (and its repetition) at a time.
Spec == Init /\ [][Next]_vars

\* NumThreads calls running concurrently, no synchronization.
SpecConc == InitConc /\ [][NextConc]_vars

\* ---- properties ---------------------------------------------------------

\* The length of a text: the index of its first terminator.
TextLen(s) ==
  CHOOSE k \in DOMAIN s : s[k] = NUL /\ \A j \in 0..(k - 1) : s[j] # NUL

IsCopy(t)    == call[t].fn = "copy_cstr"
IsDiv(t)     == call[t].fn = "safe_div"
Returned(t)  == pc[t] = "done"
HasDst(t)    == IsCopy(t) /\ call[t].dst # nullptr /\ call[t].dst_size > 0
HasSrc(t)    == call[t].src # nullptr
SrcLen(t)    == TextLen(src0[call[t].src])
Buf(t)       == mem[call[t].dst]
Buf0(t)      == mem0[call[t].dst]

\* C1: after copy_cstr(dst, dst_size, src) with dst non-null and dst_size > 0,
\* whatever src and the prior contents of dst are, the returned value r is
\* below dst_size and dst[r] is the terminator.
C1_NullTerminated ==
  \A t \in Threads :
    (HasDst(t) /\ Returned(t)) =>
      /\ ret[t] >= 0
      /\ ret[t] < call[t].dst_size
      /\ Buf(t)[ret[t]] = NUL

\* A source longer than dst_size - 1 was copied into a buffer whose slot r
\* held no terminator before.
C1_Witness ==
  \E t \in Threads :
    /\ HasDst(t) /\ HasSrc(t) /\ Returned(t)
    /\ SrcLen(t) > call[t].dst_size - 1
    /\ ret[t] >= 1
    /\ Buf0(t)[ret[t]] # NUL

\* C2: with dst non-null, dst_size > 0 and src a text of length L, the
\* returned value is min(L, dst_size - 1), dst[0..r) holds the first r units
\* of src in order, and dst[r] is the terminator.
C2_CopiesPrefix ==
  \A t \in Threads :
    (HasDst(t) /\ HasSrc(t) /\ Returned(t)) =>
      /\ ret[t] = Min(SrcLen(t), call[t].dst_size - 1)
      /\ \A i \in 0..(ret[t] - 1) : Buf(t)[i] = src0[call[t].src][i]
      /\ Buf(t)[ret[t]] = NUL

\* A source of length exactly dst_size lost its last unit; two different
\* units were copied.
C2_Witness ==
  \E t \in Threads :
    /\ HasDst(t) /\ HasSrc(t) /\ Returned(t)
    /\ SrcLen(t) = call[t].dst_size
    /\ ret[t] = call[t].dst_size - 1
    /\ ret[t] >= 2
    /\ Buf(t)[0] # Buf(t)[1]

\* C3: when dst is null or dst_size is 0, whatever src is, the call stores to
\* no slot, every buffer keeps its contents, and the call returns 0.
C3_NoOp ==
  \A t \in Threads :
    (IsCopy(t) /\ (call[t].dst = nullptr \/ call[t].dst_size = 0)) =>
      /\ written[t] = {}
      /\ mem = mem0
      /\ Returned(t) => ret[t] = 0

\* A non-null buffer was passed with dst_size 0 and a non-empty source.
C3_Witness ==
  \E t \in Threads :
    /\ IsCopy(t) /\ Returned(t) /\ round[t] = 1
    /\ call[t].dst # nullptr /\ call[t].dst_size = 0
    /\ HasSrc(t) /\ SrcLen(t) >= 1
    /\ mem0[call[t].dst][0] # NUL

\* C4 (as stated): safe_div never traps, and every input pair, (INT_MIN, -1)
\* included, produces an int.
C4_NeverTraps ==
  \A t \in Threads :
    IsDiv(t) =>
      /\ pc[t] # "trapped"
      /\ Returned(t) => ret[t] \in Int_t

\* q is the quotient of a by b rounded toward zero: the remainder a - q*b is
\* smaller than b in magnitude and is zero or has the sign of a.
IsTruncatingQuotient(a, b, q) ==
  LET r == a - q * b
  IN  /\ Abs(r) < Abs(b)
      /\ r = 0 \/ (r < 0) = (a < 0)

\* C5 (as stated): for all a and b with b # 0, safe_div(a, b) returns the
\* quotient of a by b rounded toward zero.
C5_TruncatingQuotient ==
  \A t \in Threads :
    (IsDiv(t) /\ call[t].b # 0) =>
      /\ pc[t] # "trapped"
      /\ Returned(t) => IsTruncatingQuotient(call[t].a, call[t].b, ret[t])

\* C6: safe_div(a, 0) returns 0 for every a, and signals no error.
C6_ZeroDivisor ==
  \A t \in Threads :
    (IsDiv(t) /\ call[t].b = 0) =>
      /\ pc[t] # "trapped"
      /\ Returned(t) => ret[t] = 0

\* safe_div(INT_MIN, 0) returned.
C6_Witness ==
  \E t \in Threads :
    IsDiv(t) /\ call[t].b = 0 /\ call[t].a = INT_MIN /\ Returned(t)

\* C7: with dst non-null, dst_size > 0 and src null, the call returns 0, sets
\* dst[0] to the terminator and stores to that slot only: dst[1..) keep their
\* prior values.
C7_NullSrc ==
  \A t \in Threads :
    (HasDst(t) /\ ~HasSrc(t)) =>
      /\ written[t] \subseteq {<<call[t].dst, 0>>}
      /\ \A i \in 1..(BufLen - 1) : Buf(t)[i] = Buf0(t)[i]
      /\ Returned(t) => /\ ret[t] = 0
                        /\ Buf(t)[0] = NUL
                        /\ written[t] = {<<call[t].dst, 0>>}

\* A null source was copied into a buffer of full size holding no terminator
\* in slots 0 and 1.
C7_Witness ==
  \E t \in Threads :
    /\ HasDst(t) /\ ~HasSrc(t) /\ Returned(t)
    /\ call[t].dst_size = BufLen
    /\ Buf0(t)[0] # NUL /\ Buf0(t)[1] # NUL

\* C8: with dst non-null, dst_size > 0 and src non-null, every store goes to
\* an index below dst_size of dst, every load of src is at or before its
\* terminator, the source memory is unchanged, and when the call has returned
\* r the indices stored to are exactly 0..r and dst[r+1..) keep their prior
\* values.
C8_Frame ==
  \A t \in Threads :
    (HasDst(t) /\ HasSrc(t)) =>
      /\ \A w \in written[t] :
           w[1] = call[t].dst /\ w[2] >= 0 /\ w[2] < call[t].dst_size
      /\ rd[t] \subseteq 0..SrcLen(t)
      /\ srcmem = src0
      /\ Returned(t) =>
           /\ written[t] = {<<call[t].dst, i>> : i \in 0..ret[t]}
           /\ \A i \in (ret[t] + 1)..(BufLen - 1) : Buf(t)[i] = Buf0(t)[i]

\* A source shorter than dst_size - 1 was copied into a buffer whose tail
\* held no terminator.
C8_Witness ==
  \E t \in Threads :
    /\ HasDst(t) /\ HasSrc(t) /\ Returned(t)
    /\ ret[t] >= 1
    /\ ret[t] < call[t].dst_size - 1
    /\ Buf0(t)[BufLen - 1] # NUL

\* The source text of a call (the empty text when src is null).
SrcText(t) == IF HasSrc(t) THEN src0[call[t].src] ELSE EmptyText

\* C9: in a concurrent run, a call stores only to its own destination buffer,
\* and a call that has returned has the return value and has left its
\* destination with the contents the same call produces run alone.
C9_Isolation ==
  \A t \in Threads :
    /\ \A w \in written[t] : w[1] = call[t].dst
    /\ (IsCopy(t) /\ Returned(t)) =>
         LET r == copy_cstr(call[t].dst, Buf0(t), call[t].dst_size,
                            call[t].src, SrcText(t))
         IN  ret[t] = r.ret /\ Buf(t) = r.buf
    /\ (IsDiv(t) /\ Returned(t)) =>
         [trap |-> FALSE, val |-> ret[t]] \in safe_div(call[t].a, call[t].b)

\* Thread 1 has returned from a truncating copy while thread 2 is in the
\* middle of memcpy from the same source, with a different n.
C9_Witness ==
  /\ HasDst(1) /\ HasSrc(1) /\ Returned(1)
  /\ SrcLen(1) >= call[1].dst_size
  /\ HasDst(2) /\ pc[2] = "memcpy" /\ idx[2] >= 1
  /\ call[2].src = call[1].src
  /\ n[2] # n[1]

\* C10: a copy_cstr call repeated with the same arguments on the memory the
\* first call left returns the same value and leaves every slot as the first
\* call left it.
C10_Idempotent ==
  \A t \in Threads :
    (IsCopy(t) /\ Returned(t) /\ round[t] = 2) =>
      /\ ret[t] = first[t].ret
      /\ mem = first[t].mem

\* A truncating copy of at least one unit was repeated.
C10_Witness ==
  \E t \in Threads :
    /\ HasDst(t) /\ HasSrc(t) /\ Returned(t) /\ round[t] = 2
    /\ SrcLen(t) >= call[t].dst_size
    /\ ret[t] >= 1

====
